---------------------------- MODULE Spec2Model ----------------------------
(***************************************************************************)
(* Model of src/telegram_bot.py: the command pipeline (validate_parsed,    *)
(* _apply_defaults, save_to_supabase, remove_from_supabase,                *)
(* _find_best_match, cmd_delete, toggle_demo_mode) and the reminder        *)
(* scheduler (check_reminders), which share only the remote store.         *)
(***************************************************************************)
EXTENDS Integers, Sequences, FiniteSets, TLC

(***************************************************************************)
(* Bounds of the model.                                                    *)
(***************************************************************************)
\* number of rows the store ever receives (row ids 1..MaxEntries)
MaxEntries == 2
\* the clock runs over 0..MaxTime; one unit is one calendar day
MaxTime == 1

(***************************************************************************)
(* Python values.  A JSON value is a record: t is its Python type, n its   *)
(* number (or truth value), s its characters (a str is a sequence of       *)
(* one-character strings, so that lower() and "in" can be computed).       *)
(***************************************************************************)
None == [t |-> "none", n |-> 0, s |-> <<>>]
Num(k) == [t |-> "num", n |-> k, s |-> <<>>]
Bool(b) == [t |-> "bool", n |-> IF b THEN 1 ELSE 0, s |-> <<>>]
Str(cs) == [t |-> "str", n |-> 0, s |-> cs]
EmptyList == [t |-> "list", n |-> 0, s |-> <<>>]
\* the value of a key that the object does not have
Absent == [t |-> "absent", n |-> 0, s |-> <<>>]

\* bool(v): None, False, 0, "" and [] are falsy
Truthy(v) ==
    CASE v.t = "none" -> FALSE
      [] v.t = "bool" -> v.n = 1
      [] v.t = "num" -> v.n # 0
      [] v.t = "str" -> v.s # <<>>
      [] OTHER -> FALSE

\* a == b: numbers and booleans compare by value (True == 1), strings by
\* their characters, None only equals None
PyEq(a, b) ==
    CASE a.t \in {"num", "bool"} /\ b.t \in {"num", "bool"} -> a.n = b.n
      [] a.t = "str" /\ b.t = "str" -> a.s = b.s
      [] OTHER -> a.t = b.t

UpperChars == <<"A", "B", "C", "D", "E", "F", "G", "H", "I", "J", "K", "L", "M",
                "N", "O", "P", "Q", "R", "S", "T", "U", "V", "W", "X", "Y", "Z">>
LowerChars == <<"a", "b", "c", "d", "e", "f", "g", "h", "i", "j", "k", "l", "m",
                "n", "o", "p", "q", "r", "s", "t", "u", "v", "w", "x", "y", "z">>

LowerChar(c) ==
    IF \E i \in DOMAIN UpperChars : UpperChars[i] = c
    THEN LowerChars[CHOOSE i \in DOMAIN UpperChars : UpperChars[i] = c]
    ELSE c

\* str.lower()
Lower(cs) == [i \in DOMAIN cs |-> LowerChar(cs[i])]

\* a in b, for two str
IsSubstring(a, b) ==
    \E k \in 0..(Len(b) - Len(a)) : \A i \in 1..Len(a) : b[k + i] = a[i]

DigitChars == <<"0", "1", "2", "3", "4", "5", "6", "7", "8", "9">>

\* str(k) and int(s) for one-digit numbers
IntToStr(k) == <<DigitChars[k + 1]>>
IsDigits(cs) == Len(cs) = 1 /\ \E i \in DOMAIN DigitChars : DigitChars[i] = cs[1]
StrToInt(cs) == (CHOOSE i \in DOMAIN DigitChars : DigitChars[i] = cs[1]) - 1

(***************************************************************************)
(* Python dicts are functions from keys to values.                         *)
(***************************************************************************)
EmptyDict == [k \in {} |-> None]

\* d.get(k)
Get(d, k) == IF k \in DOMAIN d THEN d[k] ELSE None
\* d.get(k, default)
GetOr(d, k, default) == IF k \in DOMAIN d THEN d[k] ELSE default
\* a setdefault that overwrites
SetDefaultOverwrite(d, k, v) == (k :> v) @@ d
\* d.setdefault(k, v)
SetDefault(d, k, v) == IF k \in DOMAIN d THEN d ELSE (k :> v) @@ d
\* d[k] = v
SetItem(d, k, v) == (k :> v) @@ d

(***************************************************************************)
(* json.dumps / json.loads of a data dict.  The text is modelled as the    *)
(* sequence of its members, <<key, value>>, in the order of FieldOrder.    *)
(***************************************************************************)
FieldOrder == <<"amount", "description", "subcategory", "date", "person",
                "status", "task", "priority", "due", "tags", "reminder_time",
                "reminded", "habit", "score", "savings", "trading",
                "demo_mode">>

JsonDumps(d) ==
    LET keys == SelectSeq(FieldOrder, LAMBDA k : k \in DOMAIN d)
    IN  [i \in DOMAIN keys |-> <<keys[i], d[keys[i]]>>]

JsonLoads(text) ==
    [k \in {text[i][1] : i \in DOMAIN text} |->
        text[CHOOSE i \in DOMAIN text :
                /\ text[i][1] = k
                /\ \A j \in DOMAIN text : text[j][1] = k => j <= i][2]]

\* row["data"] if isinstance(row["data"], dict) else json.loads(row["data"]):
\* rows written by this program hold the json.dumps text
RowData(row) == JsonLoads(row.data)

(***************************************************************************)
(* Dates and timestamps.  strftime("%Y-%m-%d") of day k is the one-digit   *)
(* string of k; an ISO 8601 timestamp with offset is that digit followed   *)
(* by "+" (standing for "T..:..:..+08:00").  The digit alone is also what  *)
(* a timestamp without offset looks like: fromisoformat reads a date as    *)
(* midnight of that day, without offset.                                   *)
(***************************************************************************)
DateStr(k) == Str(IntToStr(k))
IsoStr(k) == Str(IntToStr(k) \o <<"+">>)

\* datetime.fromisoformat(v).astimezone(timezone.utc): the instant, or a
\* ValueError / TypeError (ok = FALSE) for a value that does not parse.
\* aware says whether the text had an offset; without one astimezone takes
\* the time as local time of the host, here a host on UTC.
FromIsoformat(v) ==
    IF /\ v.t = "str"
       /\ Len(v.s) = 2
       /\ IsDigits(<<v.s[1]>>)
       /\ v.s[2] = "+"
    THEN [ok |-> TRUE, aware |-> TRUE, time |-> StrToInt(<<v.s[1]>>)]
    ELSE IF v.t = "str" /\ Len(v.s) = 1 /\ IsDigits(v.s)
    THEN [ok |-> TRUE, aware |-> FALSE, time |-> StrToInt(v.s)]
    ELSE [ok |-> FALSE, aware |-> FALSE, time |-> 0]

(***************************************************************************)
(* Schema registry and validate_parsed.                                    *)
(***************************************************************************)
Categories == {"finance", "net_worth", "dating", "todos", "habits", "sleep"}

REQUIRED_FIELDS ==
    [c \in Categories |->
        CASE c = "finance" -> {"amount", "description", "subcategory"}
          [] c = "net_worth" -> {}
          [] c = "dating" -> {"person", "status"}
          [] c = "todos" -> {"task", "priority", "status"}
          [] c = "habits" -> {"habit"}
          [] c = "sleep" -> {"score"}]

\* a remove that requires no field of any category
RemoveRequiresNothing == [c \in Categories |-> {}]

REQUIRED_FIELDS_REMOVE ==
    [c \in Categories |-> IF c = "dating" THEN {"person"} ELSE {}]

S_active == Str(<<"a", "c", "t", "i", "v", "e">>)
S_texting == Str(<<"t", "e", "x", "t", "i", "n", "g">>)
S_backburner == Str(<<"b", "a", "c", "k", "b", "u", "r", "n", "e", "r">>)
S_high == Str(<<"h", "i", "g", "h">>)
S_medium == Str(<<"m", "e", "d", "i", "u", "m">>)
S_low == Str(<<"l", "o", "w">>)
S_pending == Str(<<"p", "e", "n", "d", "i", "n", "g">>)
S_in_progress == Str(<<"i", "n", "_", "p", "r", "o", "g", "r", "e", "s", "s">>)
S_done == Str(<<"d", "o", "n", "e">>)
S_apps == Str(<<"a", "p", "p", "s">>)
S_vlogs == Str(<<"v", "l", "o", "g", "s">>)
S_pm == Str(<<"p", "m">>)

\* VALID_ENUMS.get(category, {}): field -> allowed values
VALID_ENUMS(c) ==
    CASE c = "dating" -> ("status" :> {S_active, S_texting, S_backburner})
      [] c = "todos" -> ("priority" :> {S_high, S_medium, S_low})
                        @@ ("status" :> {S_pending, S_in_progress, S_done})
      [] c = "habits" -> ("habit" :> {S_apps, S_vlogs, S_pm})
      [] OTHER -> [f \in {} |-> {}]

\* isinstance(v, (int, float)): bool is a subclass of int
IsNumber(v) == v.t \in {"num", "bool"}

\* value in allowed
InSet(v, allowed) == \E a \in allowed : PyEq(v, a)

\* A parsed extraction result.  action and category are "absent" when the
\* key is missing; has_data says whether the key "data" is there.  The
\* category "list" stands for a JSON array or object in the place of the
\* category: it cannot be hashed, so looking it up in a dict raises
\* TypeError.
ParsedData(parsed) == IF parsed.has_data THEN parsed.data ELSE EmptyDict
ParsedAction(parsed) == IF parsed.action = "absent" THEN "add" ELSE parsed.action

\* validate_parsed with the enum and numeric checks made for every action
ValidateParsedChecksRemove(parsed) ==
    LET category == parsed.category
        action == ParsedAction(parsed)
        required_map == IF action = "remove" THEN REQUIRED_FIELDS_REMOVE
                                             ELSE REQUIRED_FIELDS
        data == ParsedData(parsed)
        enums == VALID_ENUMS(category)
    IN  IF category \notin DOMAIN required_map
        THEN [ok |-> FALSE, err |-> "unknown category"]
        ELSE IF required_map[category] \ DOMAIN data # {}
        THEN [ok |-> FALSE, err |-> "missing fields"]
        ELSE IF \E f \in DOMAIN enums :
                    Truthy(Get(data, f)) /\ ~InSet(Get(data, f), enums[f])
        THEN [ok |-> FALSE, err |-> "invalid enum"]
        ELSE IF /\ category = "finance"
                /\ (~IsNumber(Get(data, "amount")) \/ Get(data, "amount").n <= 0)
        THEN [ok |-> FALSE, err |-> "invalid amount"]
        ELSE [ok |-> TRUE, err |-> ""]

\* validate_parsed without the lookup of the category
ValidateParsedAnyCategory(parsed) ==
    IF ParsedAction(parsed) = "remove" \/ parsed.category \notin {"finance", "sleep"}
    THEN [ok |-> TRUE, err |-> ""]
    ELSE [ok |-> FALSE, err |-> "missing fields"]

\* err is "TypeError" when the call raises instead of returning
ValidateParsed(parsed) ==
    LET category == parsed.category
        action == ParsedAction(parsed)
        required_map == IF action = "remove" THEN REQUIRED_FIELDS_REMOVE
                                             ELSE REQUIRED_FIELDS
        data == ParsedData(parsed)
        enums == VALID_ENUMS(category)
    IN  IF category = "list"
        THEN [ok |-> FALSE, err |-> "TypeError"]
        ELSE IF category \notin DOMAIN required_map
        THEN [ok |-> FALSE, err |-> "unknown category"]
        ELSE IF required_map[category] \ DOMAIN data # {}
        THEN [ok |-> FALSE, err |-> "missing fields"]
        ELSE IF action # "add"
        THEN [ok |-> TRUE, err |-> ""]
        ELSE IF \E f \in DOMAIN enums :
                    Truthy(Get(data, f)) /\ ~InSet(Get(data, f), enums[f])
        THEN [ok |-> FALSE, err |-> "invalid enum"]
        ELSE IF /\ category = "finance"
                /\ (~IsNumber(Get(data, "amount")) \/ Get(data, "amount").n <= 0)
        THEN [ok |-> FALSE, err |-> "invalid amount"]
        ELSE IF /\ category = "net_worth"
                /\ ~IsNumber(Get(data, "savings"))
                /\ ~IsNumber(Get(data, "trading"))
        THEN [ok |-> FALSE, err |-> "net_worth requires savings or trading"]
        ELSE IF /\ category = "sleep"
                /\ \/ ~IsNumber(Get(data, "score"))
                   \/ Get(data, "score").n < 0
                   \/ Get(data, "score").n > 10
        THEN [ok |-> FALSE, err |-> "invalid sleep score"]
        ELSE [ok |-> TRUE, err |-> ""]

(***************************************************************************)
(* _apply_defaults: fills absent keys of parsed["data"] in place; it is    *)
(* called for add and for remove alike.  Without a "data" key the defaults *)
(* go to a temporary dict and parsed is left as it was.                    *)
(***************************************************************************)
\* defaults that move a todo on: a status that is there is replaced
DefaultsForAdvancing(category, data, today) ==
    CASE category \in {"finance", "net_worth", "dating", "habits", "sleep"} ->
            SetDefault(data, "date", today)
      [] category = "todos" ->
            SetDefault(IF "status" \in DOMAIN data
                       THEN [data EXCEPT !["status"] = S_in_progress]
                       ELSE SetDefault(data, "status", S_pending),
                       "tags", EmptyList)
      [] OTHER -> data

DefaultsFor(category, data, today) ==
    CASE category \in {"finance", "net_worth", "dating", "habits", "sleep"} ->
            SetDefault(data, "date", today)
      [] category = "todos" ->
            SetDefault(SetDefault(data, "status", S_pending), "tags", EmptyList)
      [] OTHER -> data

ApplyDefaults(parsed, today) ==
    IF parsed.has_data
    THEN [parsed EXCEPT !.data = DefaultsFor(parsed.category, parsed.data, today)]
    ELSE parsed

(***************************************************************************)
(* _find_best_match.  Score is the score the loop body gives one row;      *)
(* ScoreRaises says that the body raises AttributeError instead (lower()   *)
(* of a value that is not a str).                                          *)
(***************************************************************************)
IsStr(v) == v.t = "str"

ScoreRaises(category, search, row_data) ==
    CASE category = "finance" ->
            /\ Truthy(Get(search, "description"))
            /\ \/ ~IsStr(search["description"])
               \/ ~IsStr(GetOr(row_data, "description", Str(<<>>)))
      [] category = "dating" ->
            /\ Truthy(Get(search, "person"))
            /\ \/ ~IsStr(search["person"])
               \/ ~IsStr(GetOr(row_data, "person", Str(<<>>)))
      [] OTHER -> FALSE

AmountScore(search, row_data) ==
    IF Truthy(Get(search, "amount")) /\ PyEq(Get(row_data, "amount"), search["amount"])
    THEN 3 ELSE 0

DescriptionScore(search, row_data) ==
    IF /\ Truthy(Get(search, "description"))
       /\ IsSubstring(Lower(search["description"].s),
                      Lower(GetOr(row_data, "description", Str(<<>>)).s))
    THEN 2 ELSE 0

SubcategoryScore(search, row_data) ==
    IF /\ Truthy(Get(search, "subcategory"))
       /\ PyEq(Get(row_data, "subcategory"), search["subcategory"])
    THEN 1 ELSE 0

DateScore(search, row_data) ==
    IF Truthy(Get(search, "date")) /\ PyEq(Get(row_data, "date"), search["date"])
    THEN 1 ELSE 0

\* the person rule comparing the names as they are written
PersonScoreCaseSensitive(search, row_data) ==
    IF /\ Truthy(Get(search, "person"))
       /\ search["person"].s = GetOr(row_data, "person", Str(<<>>)).s
    THEN 5 ELSE 0

PersonScore(search, row_data) ==
    IF /\ Truthy(Get(search, "person"))
       /\ Lower(search["person"].s) = Lower(GetOr(row_data, "person", Str(<<>>)).s)
    THEN 5 ELSE 0

Score(category, search, row_data) ==
    CASE category = "finance" ->
            AmountScore(search, row_data) + DescriptionScore(search, row_data)
            + SubcategoryScore(search, row_data) + DateScore(search, row_data)
      [] category = "dating" -> PersonScore(search, row_data)
      [] OTHER -> 0

\* best_row = None
NoRow == [id |-> 0, category |-> "", data |-> <<>>, created_at |-> 0]

\* the loop with "if score > 0" for "if score > best_score": the last row
\* that matches wins
RECURSIVE BestMatchLoopLast(_, _, _, _, _, _)
BestMatchLoopLast(category, search, rows, i, best_row, best_score) ==
    IF i > Len(rows)
    THEN IF best_score > 0 THEN [kind |-> "row", row |-> best_row]
                           ELSE [kind |-> "none", row |-> NoRow]
    ELSE IF ScoreRaises(category, search, RowData(rows[i]))
    THEN [kind |-> "raise", row |-> NoRow]
    ELSE LET score == Score(category, search, RowData(rows[i]))
         IN  IF score > 0
             THEN BestMatchLoopLast(category, search, rows, i + 1, rows[i], score)
             ELSE BestMatchLoopLast(category, search, rows, i + 1, best_row,
                                    best_score)

\* the loop with "if score >= best_score": on a tie the later row wins
RECURSIVE BestMatchLoopGe(_, _, _, _, _, _)
BestMatchLoopGe(category, search, rows, i, best_row, best_score) ==
    IF i > Len(rows)
    THEN IF best_score > 0 THEN [kind |-> "row", row |-> best_row]
                           ELSE [kind |-> "none", row |-> NoRow]
    ELSE IF ScoreRaises(category, search, RowData(rows[i]))
    THEN [kind |-> "raise", row |-> NoRow]
    ELSE LET score == Score(category, search, RowData(rows[i]))
         IN  IF score >= best_score
             THEN BestMatchLoopGe(category, search, rows, i + 1, rows[i], score)
             ELSE BestMatchLoopGe(category, search, rows, i + 1, best_row,
                                  best_score)

\* the loop over rows[i..], carrying best_row and best_score
RECURSIVE BestMatchLoop(_, _, _, _, _, _)
BestMatchLoop(category, search, rows, i, best_row, best_score) ==
    IF i > Len(rows)
    THEN IF best_score > 0 THEN [kind |-> "row", row |-> best_row]
                           ELSE [kind |-> "none", row |-> NoRow]
    ELSE IF ScoreRaises(category, search, RowData(rows[i]))
    THEN [kind |-> "raise", row |-> NoRow]
    ELSE LET score == Score(category, search, RowData(rows[i]))
         IN  IF score > best_score
             THEN BestMatchLoop(category, search, rows, i + 1, rows[i], score)
             ELSE BestMatchLoop(category, search, rows, i + 1, best_row, best_score)

FindBestMatch(category, search, rows) ==
    BestMatchLoop(category, search, rows, 1, NoRow, 0)

(***************************************************************************)
(* The program's state.                                                    *)
(*   store   the remote table: row id -> row, for the rows that exist      *)
(*   nextId  the id (and created_at rank) the next inserted row gets       *)
(*   now     the clock, in days                                            *)
(*   sw      the running check_reminders job: its position and locals,     *)
(*           and what it has done so far: calls (delivery calls per row),  *)
(*           okd (rows delivered), orphan (rows delivered after they had   *)
(*           left the store), patched (rows a PATCH was sent for)          *)
(*   sent    per row id, how many delivery calls succeeded: 0, 1, or 2    *)
(*           for more than one                                             *)
(*   out     what the step just taken sent out: a handler's answer to the  *)
(*           user (kept when the step is taken with observe = TRUE), or    *)
(*           the outcome of the sweep's fetch                              *)
(*   arg, res  the arguments and the result of a function called on its    *)
(*           own (the specifications of the pure functions)                *)
(***************************************************************************)
VARIABLES store, nextId, now, sw, sent, out, arg, res

vars == <<store, nextId, now, sw, sent, out, arg, res>>
pure == <<arg, res>>

Users == {1}
Ids == 1..MaxEntries

\* limit=50 of remove_from_supabase's query
FetchLimit == 50

\* outcomes of a store read, of a store write and of a delivery call:
\* "error" is a non-success status, "raise" an exception (a timeout); a
\* "lost" write is applied by the store while the call times out
ReadOutcomes == {"ok", "error", "raise"}
WriteOutcomes == {"ok", "error", "raise", "lost"}
SendOutcomes == {"ok", "error"}

Min(a, b) == IF a <= b THEN a ELSE b

(***************************************************************************)
(* Store operations (PostgREST).                                           *)
(***************************************************************************)
\* the ids of S by created_at descending
RECURSIVE OrderDesc(_)
OrderDesc(S) ==
    IF S = {} THEN <<>>
    ELSE LET m == CHOOSE i \in S :
                    \A j \in S : store[j].created_at <= store[i].created_at
         IN  <<m>> \o OrderDesc(S \ {m})

Limit(seq, n) == SubSeq(seq, 1, Min(n, Len(seq)))

\* POST: the row the store inserts
NewRow(user_id, category, data) ==
    [id |-> nextId, user_id |-> IntToStr(user_id), category |-> category,
     data |-> JsonDumps(data), created_at |-> nextId]

InsertRow(st, row) == (row.id :> row) @@ st

\* DELETE ?id=eq.<id>
DeleteRow(st, id) == [i \in DOMAIN st \ {id} |-> st[i]]

\* a PATCH that creates the row it does not find (an upsert)
PatchRowUpsert(st, id, text) ==
    IF id \in DOMAIN st THEN [st EXCEPT ![id].data = text]
    ELSE (id :> [id |-> id, user_id |-> <<>>, category |-> "todos",
                 data |-> text, created_at |-> id]) @@ st

\* a PATCH sent without its id filter: every row is updated
PatchRowAll(st, id, text) == [i \in DOMAIN st |-> [st[i] EXCEPT !.data = text]]

\* PATCH ?id=eq.<id> with {"data": text}: updates the rows that match
PatchRow(st, id, text) ==
    IF id \in DOMAIN st THEN [st EXCEPT ![id].data = text] ELSE st

Applied(outcome) == outcome \in {"ok", "lost"}

(***************************************************************************)
(* Extraction results.  resp is the oracle's response: a non-200 status,   *)
(* text that is not JSON, or a JSON object (parsed).                       *)
(***************************************************************************)
Q_status == "Sorry, I had trouble processing that. Could you try again?"
Q_invalid == "I wasn't sure how to categorise that. Could you rephrase?"
Q_json == "I couldn't understand that. Could you rephrase?"
Q_error == "Something went wrong. Please try again."
Q_default == "Could you provide more details?"

\* _error_response
\* an error response that does not set needs_clarification
ErrorResponseAsCommand(question) ==
    [action |-> "absent", category |-> "unknown", has_data |-> TRUE,
     data |-> EmptyDict, confidence |-> Absent, needs_clarification |-> FALSE,
     clarification_question |-> question]

ErrorResponse(question) ==
    [action |-> "absent", category |-> "unknown", has_data |-> FALSE,
     data |-> EmptyDict, confidence |-> Absent, needs_clarification |-> TRUE,
     clarification_question |-> question]

\* parse_with_claude validating before it looks at needs_clarification
ParseWithClaudeValidateFirst(resp, today) ==
    CASE resp.kind = "status" -> ErrorResponse(Q_status)
      [] resp.kind = "not_json" -> ErrorResponse(Q_json)
      [] resp.kind = "raise" -> ErrorResponse(Q_error)
      [] OTHER ->
            IF ~ValidateParsed(resp.parsed).ok THEN ErrorResponse(Q_invalid)
            ELSE IF resp.parsed.needs_clarification THEN resp.parsed
            ELSE ApplyDefaults(resp.parsed, today)

\* parse_with_claude without the "return _error_response(...)" after a
\* validation that failed
ParseWithClaudeNoReject(resp, today) ==
    CASE resp.kind = "status" -> ErrorResponse(Q_status)
      [] resp.kind = "not_json" -> ErrorResponse(Q_json)
      [] resp.kind = "raise" -> ErrorResponse(Q_error)
      [] OTHER ->
            IF resp.parsed.needs_clarification THEN resp.parsed
            ELSE ApplyDefaults(resp.parsed, today)

\* parse_with_claude: resp.kind "raise" is an exception other than a JSON
\* decoding error (the request timed out, the body has not the expected
\* shape)
ParseWithClaude(resp, today) ==
    CASE resp.kind = "status" -> ErrorResponse(Q_status)
      [] resp.kind = "not_json" -> ErrorResponse(Q_json)
      [] resp.kind = "raise" -> ErrorResponse(Q_error)
      [] OTHER ->
            IF resp.parsed.needs_clarification THEN resp.parsed
            ELSE IF ValidateParsed(resp.parsed).err = "TypeError"
            THEN ErrorResponse(Q_error)
            ELSE IF ~ValidateParsed(resp.parsed).ok THEN ErrorResponse(Q_invalid)
            ELSE ApplyDefaults(resp.parsed, today)

\* an object of the response format, with confidence 1
Cmd(action, category, data) ==
    [action |-> action, category |-> category, has_data |-> TRUE, data |-> data,
     confidence |-> Num(1),
     needs_clarification |-> FALSE, clarification_question |-> "absent"]

S_a == Str(<<"a">>)
S_x == Str(<<"x">>)
S_food == Str(<<"f", "o", "o", "d">>)
S_Tea == Str(<<"T", "e", "a">>)

TodoData(status) ==
    ("task" :> S_a) @@ ("priority" :> S_high) @@ ("status" :> status)

\* the JSON objects the oracle answers with in this model
OracleCommands ==
    {Cmd("add", "todos", TodoData(S_pending) @@ ("reminder_time" :> IsoStr(1))),
     Cmd("add", "todos", TodoData(S_done) @@ ("reminder_time" :> IsoStr(0))),
     Cmd("add", "todos", TodoData(S_pending)),
     Cmd("add", "todos", TodoData(S_pending) @@ ("reminder_time" :> S_x)),
     Cmd("add", "todos", ("task" :> S_a)),
     Cmd("add", "finance", ("amount" :> Num(5)) @@ ("description" :> S_Tea)
                           @@ ("subcategory" :> S_food)),
     Cmd("remove", "finance", EmptyDict),
     Cmd("remove", "finance", ("amount" :> Num(5))),
     Cmd("remove", "todos", ("task" :> S_a)),
     [Cmd("add", "unknown", EmptyDict) EXCEPT
         !.needs_clarification = TRUE,
         !.clarification_question = "Which category?"]}

\* further objects, for the message handlers on their own: dating entries,
\* a finance search that names a date, a todo without status, and commands
\* the oracle flags as ambiguous
Clarify(cmd) ==
    [cmd EXCEPT !.needs_clarification = TRUE,
                !.clarification_question = "Which one?"]

Confidence(cmd, v) == [cmd EXCEPT !.confidence = v]
\* the object without the key "data"
NoData(cmd) == [cmd EXCEPT !.has_data = FALSE, !.data = EmptyDict]

HandlerCommands ==
    {Cmd("add", "dating", ("person" :> S_Tea) @@ ("status" :> S_active)),
     Confidence(Cmd("add", "todos", TodoData(S_pending)), Absent),
     Confidence(Cmd("add", "todos", TodoData(S_pending)), Num(0)),
     Confidence(Cmd("add", "todos", TodoData(S_pending)), None),
     Confidence(Cmd("remove", "finance", ("amount" :> Num(5))), S_high),
     Cmd("remove", "dating", ("person" :> Str(<<"t", "e", "a">>))),
     Cmd("remove", "finance", ("amount" :> Num(5)) @@ ("date" :> DateStr(0))),
     Cmd("add", "todos", ("task" :> S_a) @@ ("priority" :> S_high)),
     Cmd("add", "todos", TodoData(S_pending) @@ ("reminder_time" :> DateStr(0))),
     Clarify(Cmd("add", "finance", ("amount" :> Num(5)) @@ ("description" :> S_Tea)
                                   @@ ("subcategory" :> S_food))),
     Clarify(Cmd("remove", "finance", ("amount" :> Num(5))))}
    \cup {Cmd(action, category, ("amount" :> Num(5))) :
            action \in {"add", "remove"},
            category \in {"unknown", "absent", "list"}}
    \cup {Cmd("absent", "dating", ("person" :> S_Tea) @@ ("status" :> S_active)),
          Cmd("remove", "sleep", ("score" :> Num(5))),
          Cmd("add", "sleep", ("score" :> Num(5))),
          Confidence(Cmd("remove", "todos", ("task" :> S_a)), None),
          NoData(Cmd("remove", "habits", EmptyDict)),
          NoData(Cmd("add", "habits", EmptyDict))}

OracleResponses ==
    {[kind |-> "status", parsed |-> ErrorResponse("")],
     [kind |-> "not_json", parsed |-> ErrorResponse("")],
     [kind |-> "raise", parsed |-> ErrorResponse("")]}
    \cup {[kind |-> "json", parsed |-> c] : c \in OracleCommands \cup HandlerCommands}

\* the responses used where the handlers run beside the sweep: the valid
\* todos and finance commands
SystemResponses ==
    {r \in OracleResponses :
        /\ r.kind = "json"
        /\ r.parsed \in OracleCommands
        /\ ValidateParsed(r.parsed).ok
        /\ ~r.parsed.needs_clarification
        /\ \/ r.parsed.action = "add"
           \/ r.parsed.category = "finance" /\ r.parsed.data # EmptyDict}

(***************************************************************************)
(* Message handlers.  Updates are handled one at a time, so each handler   *)
(* is one step; u is the sender and the outcomes of its store calls are    *)
(* chosen by the environment.                                              *)
(***************************************************************************)
Out(kind, id, text) == [kind |-> kind, id |-> id, text |-> text]
NoOut == Out("none", 0, "")
Answer(observe, kind, id, text) == IF observe THEN Out(kind, id, text) ELSE NoOut

UserRows(u) == {i \in DOMAIN store : store[i].user_id = IntToStr(u)}
CategoryRows(u, category) == {i \in UserRows(u) : store[i].category = category}

\* select=id,category,data,created_at
MatchRow(i) ==
    [id |-> store[i].id, category |-> store[i].category,
     data |-> store[i].data, created_at |-> store[i].created_at]

\* the fetch without limit=50
CandidatesNoLimit(u, category) ==
    LET order == OrderDesc(CategoryRows(u, category))
    IN  [k \in DOMAIN order |-> MatchRow(order[k])]

\* the rows remove_from_supabase fetches: the user's rows of the category,
\* created_at descending, limit 50
Candidates(u, category) ==
    LET order == Limit(OrderDesc(CategoryRows(u, category)), FetchLimit)
    IN  [k \in DOMAIN order |-> MatchRow(order[k])]

\* remove_from_supabase: the row it returns (NoRow for None) and the store
\* it leaves.  The DELETE is only issued after a fetch that gave a match.
RemoveMatch(category, data, u, fetch) ==
    LET rows == Candidates(u, category)
        match == FindBestMatch(category, data, rows)
    IN  IF fetch # "ok" \/ rows = <<>> \/ match.kind # "row" THEN NoRow
        ELSE match.row

\* remove_from_supabase deleting the most recent candidate, not the match
RemoveFromSupabaseFirstRow(category, data, u, fetch, del) ==
    LET match == RemoveMatch(category, data, u, fetch)
        first == Candidates(u, category)[1]
    IN  IF match = NoRow
        THEN [deleted |-> NoRow, store |-> store]
        ELSE [deleted |-> IF del = "ok" THEN first ELSE NoRow,
              store |-> IF Applied(del) THEN DeleteRow(store, first.id)
                                        ELSE store]

RemoveFromSupabase(category, data, u, fetch, del) ==
    LET match == RemoveMatch(category, data, u, fetch)
    IN  IF match = NoRow
        THEN [deleted |-> NoRow, store |-> store]
        ELSE [deleted |-> IF del = "ok" THEN match ELSE NoRow,
              store |-> IF Applied(del) THEN DeleteRow(store, match.id)
                                        ELSE store]

\* save_to_supabase: whether it returns True, and the store it leaves
SaveToSupabase(category, data, u, ins) ==
    [success |-> ins = "ok",
     store |-> IF Applied(ins) THEN InsertRow(store, NewRow(u, category, data))
                               ELSE store,
     nextId |-> IF Applied(ins) THEN nextId + 1 ELSE nextId]

\* confidence = parsed.get("confidence", 0); low_conf = confidence < 0.7:
\* the comparison raises TypeError for a value that is not a number
Confidence0(parsed) ==
    IF parsed.confidence = Absent THEN Num(0) ELSE parsed.confidence
ConfidenceRaises(parsed) == ~IsNumber(Confidence0(parsed))
LowConf(parsed) == Confidence0(parsed).n < 1

\* what is kept of an update where the answers are observed: the sender and
\* what the oracle said of the message (kind "command" for /delete and demo)
Asked(observe, u, kind, parsed) ==
    IF observe THEN [kind |-> kind, parsed |-> parsed, user |-> u] ELSE arg

\* handle_message, for a message that is neither a wiki command nor "demo"
HandleMessage(u, resp, observe) ==
    LET parsed == ParseWithClaude(resp, DateStr(now))
        action == ParsedAction(parsed)
    IN  /\ IF parsed.needs_clarification
           THEN /\ out' = Answer(observe, "AskClarification", 0,
                              IF parsed.clarification_question = "absent"
                              THEN Q_default
                              ELSE parsed.clarification_question)
                /\ UNCHANGED <<store, nextId>>
           ELSE IF ~parsed.has_data \/ ConfidenceRaises(parsed)
           THEN \* parsed["data"] raises KeyError, or the comparison of
                \* confidence TypeError: the handler ends unanswered
                /\ out' = Answer(observe, "Unhandled", 0, "")
                /\ UNCHANGED <<store, nextId>>
           ELSE IF action = "remove"
           THEN \E fetch \in ReadOutcomes :
                \E del \in IF RemoveMatch(parsed.category, parsed.data, u, fetch) = NoRow
                            THEN {"ok"} ELSE WriteOutcomes :
                    LET r == RemoveFromSupabase(parsed.category, parsed.data, u,
                                                fetch, del)
                    IN  /\ store' = r.store
                        /\ out' = IF r.deleted # NoRow
                                  THEN Answer(observe, "Removed", r.deleted.id, "")
                                  ELSE Answer(observe, "NothingMatched", 0, "")
                        /\ UNCHANGED nextId
           ELSE \E ins \in WriteOutcomes :
                    LET r == SaveToSupabase(parsed.category, parsed.data, u, ins)
                    IN  /\ nextId <= MaxEntries
                        /\ store' = r.store
                        /\ nextId' = r.nextId
                        /\ out' = IF r.success
                                  THEN Answer(observe, "Logged", nextId,
                                              IF LowConf(parsed) THEN "not sure"
                                              ELSE "")
                                  ELSE Answer(observe, "PersistenceFailed", 0, "")
        /\ arg' = Asked(observe, u, resp.kind, resp.parsed)
        /\ UNCHANGED <<now, sw, sent, res>>

\* cmd_delete: delete the user's most recent row
CmdDelete(u, observe) ==
    LET order == Limit(OrderDesc(UserRows(u)), 1)
    IN  /\ \E fetch \in ReadOutcomes :
              IF fetch = "raise"
              THEN out' = Answer(observe, "DeleteError", 0, "") /\ UNCHANGED store
              ELSE IF fetch # "ok" \/ order = <<>>
              THEN out' = Answer(observe, "NothingToDelete", 0, "") /\ UNCHANGED store
              ELSE \E del \in WriteOutcomes :
                      /\ store' = IF Applied(del) THEN DeleteRow(store, order[1])
                                                  ELSE store
                      /\ out' = CASE del = "ok" -> Answer(observe, "Deleted", order[1], "")
                                  [] del = "error" -> Answer(observe, "DeleteFailed", 0, "")
                                  [] OTHER -> Answer(observe, "DeleteError", 0, "")
        /\ arg' = Asked(observe, u, "command", ErrorResponse(""))
        /\ UNCHANGED <<nextId, now, sw, sent, res>>

\* toggle_demo_mode: flip demo_mode in the user's settings row, or insert
\* the settings row
SettingsRows(u) == CategoryRows(u, "settings")

ToggleDemoMode(u, observe) ==
    /\ \E fetch \in ReadOutcomes :
          IF fetch = "raise"
          THEN out' = Answer(observe, "DemoFailed", 0, "") /\ UNCHANGED <<store, nextId>>
          ELSE IF fetch = "ok" /\ SettingsRows(u) # {}
          THEN \E i \in SettingsRows(u), write \in WriteOutcomes :
                  LET data == RowData(store[i])
                      new_demo == ~Truthy(GetOr(data, "demo_mode", Bool(FALSE)))
                      text == JsonDumps(SetItem(data, "demo_mode", Bool(new_demo)))
                  IN  /\ store' = IF Applied(write) THEN PatchRow(store, i, text)
                                                    ELSE store
                      /\ out' = IF write \in {"raise", "lost"}
                                THEN Answer(observe, "DemoFailed", 0, "")
                                ELSE Answer(observe, IF new_demo THEN "DemoOn" ELSE "DemoOff", i, "")
                      /\ UNCHANGED nextId
          ELSE \E ins \in WriteOutcomes :
                  LET r == SaveToSupabase("settings", ("demo_mode" :> Bool(TRUE)),
                                          u, ins)
                  IN  /\ nextId <= MaxEntries
                      /\ store' = r.store
                      /\ nextId' = r.nextId
                      /\ out' = Answer(observe, "DemoOn", 0, "")
    /\ arg' = Asked(observe, u, "command", ErrorResponse(""))
    /\ UNCHANGED <<now, sw, sent, res>>

(***************************************************************************)
(* check_reminders.  The job queue runs one instance at a time.  A sweep   *)
(* is a fetch, then one step per fetched row (the skip tests and the       *)
(* delivery call), then, after a delivery that succeeded, the PATCH.       *)
(***************************************************************************)
NoSweepRow == [id |-> 0, user_id |-> <<>>, data |-> <<>>]

IdleSweep ==
    [pc |-> "idle", now_utc |-> 0, rows |-> [i \in {} |-> NoSweepRow],
     todo |-> {}, cur |-> 0, calls |-> [i \in {} |-> 0], okd |-> {},
     orphan |-> {}, patched |-> {}]

\* select=id,user_id,data
SweepRowOf(i) ==
    [id |-> store[i].id, user_id |-> store[i].user_id, data |-> store[i].data]

\* category=eq.todos
TodoRows == {i \in DOMAIN store : store[i].category = "todos"}

\* the tests without "if data.get('reminded'): continue"
SkipsNoReminded(data, now_utc) ==
    \/ ~Truthy(Get(data, "reminder_time"))
    \/ PyEq(Get(data, "status"), S_done)
    \/ ~FromIsoformat(data["reminder_time"]).ok
    \/ FromIsoformat(data["reminder_time"]).time > now_utc

\* the tests without "if data.get('status') == 'done': continue"
SkipsNoDone(data, now_utc) ==
    \/ ~Truthy(Get(data, "reminder_time"))
    \/ Truthy(Get(data, "reminded"))
    \/ ~FromIsoformat(data["reminder_time"]).ok
    \/ FromIsoformat(data["reminder_time"]).time > now_utc

\* the tests with the due comparison turned round
SkipsInverted(data, now_utc) ==
    \/ ~Truthy(Get(data, "reminder_time"))
    \/ Truthy(Get(data, "reminded"))
    \/ PyEq(Get(data, "status"), S_done)
    \/ ~FromIsoformat(data["reminder_time"]).ok
    \/ FromIsoformat(data["reminder_time"]).time <= now_utc

\* the "continue" tests before the delivery call: no reminder, already
\* reminded, already done, unparseable, or not yet due
Skips(data, now_utc) ==
    \/ ~Truthy(Get(data, "reminder_time"))
    \/ Truthy(Get(data, "reminded"))
    \/ PyEq(Get(data, "status"), S_done)
    \/ ~FromIsoformat(data["reminder_time"]).ok
    \/ FromIsoformat(data["reminder_time"]).time > now_utc

\* a body that holds the flag alone instead of the data as fetched
MarkedTextFlagOnly(data) == JsonDumps(("reminded" :> Bool(TRUE)))

\* data["reminded"] = True; json.dumps(data)
MarkedText(data) == JsonDumps(SetItem(data, "reminded", Bool(TRUE)))

\* the GET without the "return" after a failed fetch
SweepFetchNoReturn(fetch) ==
    /\ sw.pc = "idle"
    /\ sw' = [pc |-> "loop", now_utc |-> now,
              rows |-> [i \in TodoRows |-> SweepRowOf(i)],
              todo |-> TodoRows, cur |-> 0,
              calls |-> [i \in TodoRows |-> 0], okd |-> {},
              orphan |-> {}, patched |-> {}]
    /\ out' = IF fetch = "ok" THEN Out("Fetched", 0, "")
                              ELSE Out("FetchFailed", 0, "")
    /\ UNCHANGED <<store, nextId, now, sent, pure>>

\* the GET; a status other than 200 or an exception ends the sweep
SweepFetch(fetch) ==
    /\ sw.pc = "idle"
    /\ IF fetch = "ok"
       THEN /\ sw' = [pc |-> "loop", now_utc |-> now,
                      rows |-> [i \in TodoRows |-> SweepRowOf(i)],
                      todo |-> TodoRows, cur |-> 0,
                      calls |-> [i \in TodoRows |-> 0], okd |-> {},
                      orphan |-> {}, patched |-> {}]
            /\ out' = Out("Fetched", 0, "")
       ELSE /\ sw' = IdleSweep
            /\ out' = Out("FetchFailed", 0, "")
    /\ UNCHANGED <<store, nextId, now, sent, pure>>

\* the iteration without the "continue" after a failed delivery
SweepRowNoContinue(i, send) ==
    /\ sw.pc = "loop"
    /\ i \in sw.todo
    /\ IF Skips(RowData(sw.rows[i]), sw.now_utc)
       THEN /\ sw' = [sw EXCEPT !.todo = @ \ {i}]
            /\ UNCHANGED sent
       ELSE IF send = "ok" /\ IsDigits(sw.rows[i].user_id)
       THEN /\ sw' = [sw EXCEPT !.pc = "patch", !.cur = i,
                                !.calls[i] = @ + 1, !.okd = @ \cup {i},
                                !.orphan = IF i \in DOMAIN store THEN @
                                           ELSE @ \cup {i}]
            /\ sent' = [sent EXCEPT ![i] = IF @ = 0 THEN 1 ELSE 2]
       ELSE /\ sw' = [sw EXCEPT !.pc = "patch", !.cur = i, !.calls[i] = @ + 1]
            /\ UNCHANGED sent
    /\ out' = NoOut
    /\ UNCHANGED <<store, nextId, now, pure>>

\* one iteration of the loop up to the end of the delivery call
SweepRow(i, send) ==
    /\ sw.pc = "loop"
    /\ i \in sw.todo
    /\ IF Skips(RowData(sw.rows[i]), sw.now_utc)
       THEN /\ sw' = [sw EXCEPT !.todo = @ \ {i}]
            /\ UNCHANGED sent
       ELSE IF send = "ok" /\ IsDigits(sw.rows[i].user_id)
       THEN /\ sw' = [sw EXCEPT !.pc = "patch", !.cur = i,
                                !.calls[i] = @ + 1, !.okd = @ \cup {i},
                                !.orphan = IF i \in DOMAIN store THEN @
                                           ELSE @ \cup {i}]
            /\ sent' = [sent EXCEPT ![i] = IF @ = 0 THEN 1 ELSE 2]
       ELSE /\ sw' = [sw EXCEPT !.todo = @ \ {i}, !.calls[i] = @ + 1]
            /\ UNCHANGED sent
    /\ out' = NoOut
    /\ UNCHANGED <<store, nextId, now, pure>>

\* the PATCH that marks the row just delivered; its status is not read
SweepPatch(write) ==
    /\ sw.pc = "patch"
    /\ store' = IF Applied(write)
                THEN PatchRow(store, sw.cur, MarkedText(RowData(sw.rows[sw.cur])))
                ELSE store
    /\ sw' = [sw EXCEPT !.pc = "loop", !.cur = 0, !.todo = @ \ {sw.cur},
                        !.patched = @ \cup {sw.cur}]
    /\ out' = NoOut
    /\ UNCHANGED <<nextId, now, sent, pure>>

\* the loop is over
SweepDone ==
    /\ sw.pc = "loop"
    /\ sw.todo = {}
    /\ sw' = IdleSweep
    /\ out' = NoOut
    /\ UNCHANGED <<store, nextId, now, sent, pure>>

\* the process is restarted while a sweep is running: the sweep is lost
Restart ==
    /\ sw.pc # "idle"
    /\ sw' = IdleSweep
    /\ out' = NoOut
    /\ UNCHANGED <<store, nextId, now, sent, pure>>

\* time passes
Tick ==
    /\ now < MaxTime
    /\ now' = now + 1
    /\ out' = NoOut
    /\ UNCHANGED <<store, nextId, sw, sent, pure>>

(***************************************************************************)
(* The specification.                                                      *)
(***************************************************************************)
NoArg == [category |-> "", search |-> EmptyDict, rows |-> <<>>]
NoRes == [kind |-> "pending", row |-> NoRow]

Init ==
    /\ store = [i \in {} |-> NoRow]
    /\ nextId = 1
    /\ now = 0
    /\ sw = IdleSweep
    /\ sent = [i \in Ids |-> 0]
    /\ out = NoOut
    /\ arg = NoArg
    /\ res = NoRes

\* the whole program; the handlers' answers are not kept
Message == \E u \in Users, resp \in SystemResponses : HandleMessage(u, resp, FALSE)
Delete == \E u \in Users : CmdDelete(u, FALSE)
Demo == \E u \in Users : ToggleDemoMode(u, FALSE)
Fetch == \E fetch \in ReadOutcomes : SweepFetch(fetch)
Row == \E i \in Ids, send \in SendOutcomes : SweepRow(i, send)
Patch == \E write \in WriteOutcomes : SweepPatch(write)

Next ==
    \/ Message
    \/ Delete
    \/ Demo
    \/ Fetch
    \/ Row
    \/ Patch
    \/ SweepDone
    \/ Restart
    \/ Tick

Spec == Init /\ [][Next]_vars

\* the message handlers alone, with their answers kept
MessageObs == \E u \in Users, resp \in OracleResponses : HandleMessage(u, resp, TRUE)
DeleteObs == \E u \in Users : CmdDelete(u, TRUE)
DemoObs == \E u \in Users : ToggleDemoMode(u, TRUE)

NextMsg ==
    \/ MessageObs
    \/ DeleteObs
    \/ DemoObs
    \/ Tick

SpecMsg == Init /\ [][NextMsg]_vars

\* the whole program under fair scheduling: the job queue keeps running
\* sweeps, and the fetch, each row's delivery call and each row's PATCH
\* succeed again and again
Fairness ==
    /\ WF_vars(SweepDone)
    /\ SF_vars(SweepFetch("ok"))
    /\ \A i \in Ids : SF_vars(SweepRow(i, "ok"))
    /\ \A i \in Ids : SF_vars(sw.cur = i /\ SweepPatch("ok"))

FairSpec == Spec /\ Fairness

(***************************************************************************)
(* _find_best_match called on its own: the category, the search criteria   *)
(* and the candidate rows (most recent first) are drawn from bounded sets. *)
(***************************************************************************)
\* the longest candidate sequence
MaxRows == 2

FinanceData(amount, description, date) ==
    ("amount" :> amount) @@ ("description" :> description)
    @@ ("subcategory" :> S_food) @@ ("date" :> date)

MatchDatas(category) ==
    CASE category = "finance" ->
            {FinanceData(Num(5), S_Tea, DateStr(0)),
             FinanceData(Num(5), S_a, DateStr(1)),
             FinanceData(Num(7), S_Tea, DateStr(1)),
             ("amount" :> Num(7)) @@ ("description" :> None)
             @@ ("subcategory" :> S_x)}
      [] category = "dating" ->
            {("person" :> S_Tea) @@ ("status" :> S_active),
             ("person" :> S_a) @@ ("status" :> S_texting)}
      [] OTHER -> {TodoData(S_pending)}

MatchSearches(category) ==
    CASE category = "finance" ->
            {EmptyDict,
             ("amount" :> Num(5)),
             ("amount" :> Num(0)) @@ ("date" :> DateStr(1)),
             ("amount" :> Num(7)) @@ ("description" :> Str(<<"t", "E">>)),
             ("description" :> S_a) @@ ("date" :> DateStr(0)),
             ("description" :> Str(<<>>)),
             ("subcategory" :> S_food) @@ ("date" :> DateStr(1))}
      [] category = "dating" ->
            {("person" :> Str(<<"t", "e", "a">>)),
             ("person" :> Str(<<"A">>)),
             ("person" :> S_x)}
      [] OTHER -> {("task" :> S_a)}

\* rows as the query returns them: created_at descending
MatchRows(category, datas) ==
    [k \in DOMAIN datas |->
        [id |-> Len(datas) - k + 1, category |-> category,
         data |-> JsonDumps(datas[k]), created_at |-> Len(datas) - k + 1]]

InitMatch ==
    /\ store = [i \in {} |-> NoRow]
    /\ nextId = 1
    /\ now = 0
    /\ sw = IdleSweep
    /\ sent = [i \in Ids |-> 0]
    /\ out = NoOut
    /\ \E category \in {"finance", "dating", "todos"} :
        \E search \in MatchSearches(category), n \in 0..MaxRows :
            \E datas \in [1..n -> MatchDatas(category)] :
                arg = [category |-> category, search |-> search,
                       rows |-> MatchRows(category, datas)]
    /\ res = NoRes

CallFindBestMatch ==
    /\ res = NoRes
    /\ res' = FindBestMatch(arg.category, arg.search, arg.rows)
    /\ UNCHANGED <<store, nextId, now, sw, sent, out, arg>>

NextMatch == CallFindBestMatch

SpecMatch == InitMatch /\ [][NextMatch]_vars

(***************************************************************************)
(* parse_with_claude and validate_parsed called on their own, once per     *)
(* message, on the responses of ParseResponses: every category and action  *)
(* with data that probes the required fields, the enum fields and the      *)
(* numeric checks.                                                         *)
(***************************************************************************)
EnumProbes == {S_x, Str(<<>>), None, Num(0), Bool(FALSE), EmptyList}
NumberProbes == {None, S_x, Bool(TRUE), Bool(FALSE), Num(-1), Num(0), Num(5),
                 Num(10), Num(11)}

FinanceBase == ("description" :> S_Tea) @@ ("subcategory" :> S_food)

ProbeDatas(category) ==
    CASE category = "finance" ->
            {EmptyDict, FinanceBase, ("amount" :> Num(5)), ("amount" :> Num(-1)),
             ("amount" :> Num(5)) @@ ("description" :> S_Tea),
             ("amount" :> Num(5)) @@ ("subcategory" :> S_food)}
            \cup {FinanceBase @@ ("amount" :> v) : v \in NumberProbes}
      [] category = "sleep" ->
            {EmptyDict} \cup {("score" :> v) : v \in NumberProbes}
      [] category = "net_worth" ->
            {EmptyDict, ("savings" :> Num(5)) @@ ("trading" :> Num(5)),
             ("savings" :> S_x) @@ ("trading" :> Num(5)),
             ("savings" :> Bool(FALSE)) @@ ("trading" :> None)}
            \cup {("savings" :> v) : v \in NumberProbes}
            \cup {("trading" :> v) : v \in NumberProbes}
      [] category = "dating" ->
            {EmptyDict, ("person" :> S_Tea), ("status" :> S_active),
             ("status" :> S_x)}
            \cup {("person" :> S_Tea) @@ ("status" :> v) :
                    v \in EnumProbes \cup {S_active}}
      [] category = "todos" ->
            {EmptyDict, ("task" :> S_a) @@ ("priority" :> S_high),
             ("task" :> S_a) @@ ("priority" :> S_x),
             ("priority" :> S_high) @@ ("status" :> S_done),
             ("task" :> S_a) @@ ("status" :> S_done)}
            \cup {TodoData(v) : v \in EnumProbes \cup {S_pending}}
            \cup {("task" :> S_a) @@ ("priority" :> v) @@ ("status" :> S_done) :
                    v \in EnumProbes}
      [] category = "habits" ->
            {EmptyDict} \cup {("habit" :> v) : v \in EnumProbes \cup {S_pm}}
      [] OTHER -> {EmptyDict, FinanceBase @@ ("amount" :> Num(5))}

ParseCommands ==
    {[action |-> action, category |-> category, has_data |-> TRUE, data |-> data,
      confidence |-> Num(1), needs_clarification |-> nc,
      clarification_question |-> IF nc THEN "Which category?" ELSE "absent"] :
        action \in {"add", "remove", "absent"},
        category \in Categories \cup {"unknown", "absent", "list"},
        data \in UNION {ProbeDatas(c) : c \in Categories \cup {"unknown"}},
        nc \in BOOLEAN}

ParseResponses ==
    {[kind |-> k, parsed |-> ErrorResponse("")] : k \in {"status", "not_json", "raise"}}
    \cup {[kind |-> "json", parsed |-> c] :
            c \in {c \in ParseCommands : c.data \in ProbeDatas(c.category)}}

\* one message: the response arg, what validate_parsed says of it (for a
\* JSON object) and what parse_with_claude returns
CallParse ==
    /\ \E resp \in ParseResponses :
        /\ arg' = resp
        /\ res' = [kind |-> "parsed",
                   valid |-> IF resp.kind = "json" THEN ValidateParsed(resp.parsed)
                             ELSE [ok |-> FALSE, err |-> "not validated"],
                   parsed |-> ParseWithClaude(resp, DateStr(now))]
    /\ UNCHANGED <<store, nextId, now, sw, sent, out>>

NextParse == CallParse

SpecParse == Init /\ [][NextParse]_vars

(***************************************************************************)
(* The handlers of two users on a store that holds more rows than a fetch  *)
(* returns.  User 1 has FetchLimit + 1 finance entries, the oldest with    *)
(* amount 5, the most recent with amount 1 and the others with amount 10,  *)
(* and a dating entry; user 2 has one finance entry with amount 5 and a    *)
(* dating entry, more recent than those.  All are dated day 9.  The users  *)
(* remove by amount 5, by amount 1 or by person.                           *)
(***************************************************************************)
Senders == {1, 2}

LimitRow(id, u, category, data) ==
    [id |-> id, user_id |-> IntToStr(u), category |-> category,
     data |-> JsonDumps(data @@ ("date" :> DateStr(9))), created_at |-> id]

LimitStore ==
    [i \in 1..(FetchLimit + 4) |->
        CASE i = 1 ->
                LimitRow(i, 1, "finance", FinanceBase @@ ("amount" :> Num(5)))
          [] i = FetchLimit + 2 ->
                LimitRow(i, 2, "finance", FinanceBase @@ ("amount" :> Num(5)))
          [] i \in {FetchLimit + 3, FetchLimit + 4} ->
                LimitRow(i, i - (FetchLimit + 2), "dating",
                         ("person" :> S_Tea) @@ ("status" :> S_active)
                         @@ ("amount" :> Num(5)))
          [] i = FetchLimit + 1 ->
                LimitRow(i, 1, "finance", FinanceBase @@ ("amount" :> Num(1)))
          [] OTHER ->
                LimitRow(i, 1, "finance", FinanceBase @@ ("amount" :> Num(10)))]

InitLimit ==
    /\ store = LimitStore
    /\ nextId = FetchLimit + 5
    /\ now = 0
    /\ sw = IdleSweep
    /\ sent = [i \in Ids |-> 0]
    /\ out = NoOut
    /\ arg = NoArg
    /\ res = NoRes

LimitResponses ==
    {[kind |-> "json", parsed |-> c] :
        c \in {Cmd("remove", "finance", ("amount" :> Num(5))),
               Cmd("remove", "finance", ("amount" :> Num(1))),
               Cmd("remove", "dating", ("person" :> Str(<<"t", "e", "a">>)))}}

MessageLimit ==
    \E u \in Senders, resp \in LimitResponses : HandleMessage(u, resp, TRUE)

NextLimit == MessageLimit

SpecLimit == InitLimit /\ [][NextLimit]_vars

(***************************************************************************)
(* _apply_defaults called on its own, once and then once more on its own   *)
(* result with the same date, on DefaultCommands: every category with data *)
(* that has none, some or all of the keys it fills, and a command without  *)
(* data.  The key "category" is always there: validate_parsed has looked   *)
(* it up before _apply_defaults is called.                                 *)
(***************************************************************************)
DefaultProbes ==
    {EmptyDict, TodoData(S_done), ("task" :> S_a) @@ ("priority" :> S_high),
     ("score" :> Num(5)), ("date" :> DateStr(1)), ("date" :> None),
     ("tags" :> EmptyList), ("status" :> S_done) @@ ("tags" :> S_x),
     ("status" :> None), ("status" :> S_pending) @@ ("date" :> Str(<<>>))}

DefaultCommands ==
    {[action |-> action, category |-> category, has_data |-> has_data,
      data |-> IF has_data THEN data ELSE EmptyDict,
      confidence |-> confidence, needs_clarification |-> FALSE,
      clarification_question |-> question] :
        action \in {"add", "remove", "absent"},
        category \in Categories \cup {"unknown"},
        has_data \in BOOLEAN,
        data \in DefaultProbes,
        confidence \in {Num(1), Absent},
        question \in {"absent", "Which one?"}}

CallApplyDefaults ==
    /\ \E parsed \in DefaultCommands, t \in 0..MaxTime :
        /\ arg' = [kind |-> "defaults", parsed |-> parsed, today |-> DateStr(t)]
        /\ res' = [kind |-> "defaulted", count |-> 1, first |-> parsed,
                   parsed |-> ApplyDefaults(parsed, DateStr(t))]
    /\ UNCHANGED <<store, nextId, now, sw, sent, out>>

ApplyDefaultsAgain ==
    /\ res.kind = "defaulted"
    /\ res.count = 1
    /\ res' = [kind |-> "defaulted", count |-> 2, first |-> res.parsed,
               parsed |-> ApplyDefaults(res.parsed, arg.today)]
    /\ UNCHANGED <<store, nextId, now, sw, sent, out, arg>>

NextDefaults ==
    \/ CallApplyDefaults
    \/ ApplyDefaultsAgain

SpecDefaults == Init /\ [][NextDefaults]_vars

(***************************************************************************)
(* Properties.                                                             *)
(***************************************************************************)
Reminded(row) == Truthy(Get(RowData(row), "reminded"))

\* data is that of a todo whose reminder is due at time t: reminder_time
\* parses and is not after t, reminded is not set, status is not done
DueData(data, t) ==
    /\ "reminder_time" \in DOMAIN data
    /\ FromIsoformat(data["reminder_time"]).ok
    /\ FromIsoformat(data["reminder_time"]).time <= t
    /\ ~Truthy(Get(data, "reminded"))
    /\ ~PyEq(Get(data, "status"), S_done)

\* C1: over any sequence of sweeps, at most one delivery call succeeds for
\* a todos entry, whatever the PATCH that follows does and whether or not the
\* process restarts before it.
C1_AtMostOneDelivery == \A i \in Ids : sent[i] <= 1

\* C2: a sweep that fetched an entry with reminded=true stored, or that
\* finds it stored with reminded=true by an earlier sweep, issues no
\* delivery call for it; a sweep that fetched an entry with reminder_time in
\* the past, reminded false and status pending has issued exactly one
\* delivery call for it once the loop is past that row, and none before.
C2_OneCallPerSweep ==
    \A i \in DOMAIN sw.rows :
        LET data == RowData(sw.rows[i])
            passed == i \notin sw.todo \/ sw.cur = i
        IN  /\ Truthy(Get(data, "reminded")) => sw.calls[i] = 0
            /\ (i \in DOMAIN store /\ Reminded(store[i])
                /\ i \notin sw.patched) => sw.calls[i] = 0
            /\ sw.calls[i] <= 1
            /\ ~passed => sw.calls[i] = 0
            /\ (passed /\ DueData(data, sw.now_utc)
                /\ PyEq(Get(data, "status"), S_pending)) => sw.calls[i] = 1

\* a sweep has fetched a row that an earlier sweep marked, and is past it
C2_Witness ==
    \E i \in DOMAIN sw.rows :
        /\ i \notin sw.todo
        /\ Truthy(Get(RowData(sw.rows[i]), "reminded"))
        /\ sent[i] = 1

C4_DeliveryOnlyWhenDue ==
    [][/\ (sw.pc = "idle" /\ sw'.pc = "loop") =>
            \A i \in DOMAIN sw'.rows : store[i].category = "todos"
       /\ \A i \in DOMAIN sw.rows \cap DOMAIN sw'.rows :
            sw'.calls[i] > sw.calls[i] =>
                DueData(RowData(sw.rows[i]), sw.now_utc)]_vars

\* one sweep has sent for one row and passed over another
C4_Witness ==
    \E i, j \in DOMAIN sw.rows :
        sw.calls[i] = 1 /\ j \notin sw.todo /\ sw.calls[j] = 0

\* C5: a sweep whose fetch fails ends there: no delivery call, no store
\* write, every entry as it was, and the job is idle again, so that the next
\* sweep runs; the sweep that follows fetches every todos row of the store.
C5_FailedFetchSkipsSweep ==
    [][/\ out'.kind = "FetchFailed" =>
            store' = store /\ sent' = sent /\ sw' = IdleSweep
       /\ (out.kind = "FetchFailed" /\ out'.kind = "Fetched") =>
            /\ DOMAIN sw'.rows = TodoRows
            /\ sw'.todo = TodoRows
            /\ \A i \in TodoRows : sw'.rows[i].data = store[i].data]_vars

\* a fetch has failed while a due todo was stored
C5_Witness ==
    /\ out.kind = "FetchFailed"
    /\ \E i \in TodoRows : DueData(RowData(store[i]), now)

\* C6: a row that the sweep delivered after the user had deleted it stays
\* deleted: the PATCH that follows does not bring it back.
C6_DeletedStaysDeleted == \A i \in sw.orphan : i \notin DOMAIN store

\* the sweep read a todo as due, the user deleted it, the sweep delivered
\* its reminder all the same and has sent its PATCH
C6_Witness ==
    \E i \in sw.orphan : i \in sw.patched /\ i \notin DOMAIN store

\* C7: an entry whose stored reminded is true keeps it for as long as it
\* is stored.
C7_RemindedMonotonic ==
    [][\A i \in DOMAIN store \cap DOMAIN store' :
            Reminded(store[i]) => Reminded(store'[i])]_vars

\* a marked entry is stored beside a row inserted after it
C7_Witness ==
    \E i, j \in DOMAIN store : i < j /\ Reminded(store[i])

\* C8: an entry that is stored and due is, in the end, marked reminded
\* (after a delivery: C3) unless it leaves the store.
C8_DueEventuallyReminded ==
    \A i \in Ids :
        (i \in DOMAIN store /\ store[i].category = "todos"
         /\ DueData(RowData(store[i]), now))
        ~> (i \notin DOMAIN store \/ Reminded(store[i]))

\* a due entry has been delivered and marked
C8_Witness ==
    \E i \in DOMAIN store :
        Reminded(store[i]) /\ sent[i] >= 1 /\ sw.pc = "idle"

\* C9: a remove whose data supplies no criterion matches nothing: the
\* handler answers NothingMatched and the store is as it was.
EmptyRemove == [kind |-> "json", parsed |-> Cmd("remove", "finance", EmptyDict)]

C9_NoCriteriaNoMatch ==
    [][\A u \in Users :
            HandleMessage(u, EmptyRemove, TRUE) =>
                out'.kind = "NothingMatched" /\ store' = store]_vars

\* C10: _find_best_match returns None exactly when every candidate scores
\* 0, and otherwise a row of the sequence whose score is the greatest.
C10_BestMatchIsMaximum ==
    res.kind \in {"none", "row"} =>
        LET sc(k) == Score(arg.category, arg.search, RowData(arg.rows[k]))
        IN  /\ res.kind = "none" <=> \A k \in DOMAIN arg.rows : sc(k) = 0
            /\ res.kind = "row" =>
                \E k \in DOMAIN arg.rows :
                    /\ arg.rows[k] = res.row
                    /\ \A j \in DOMAIN arg.rows : sc(j) <= sc(k)

\* the row returned beats another row that matched as well
C10_Witness ==
    /\ res.kind = "row"
    /\ \E j \in DOMAIN arg.rows :
        LET sj == Score(arg.category, arg.search, RowData(arg.rows[j]))
        IN  sj > 0 /\ sj < Score(arg.category, arg.search, RowData(res.row))

\* the score of a candidate of the call just made
ArgScore(k) == Score(arg.category, arg.search, RowData(arg.rows[k]))

\* C11: when several candidates share the greatest positive score,
\* _find_best_match returns the first of them in the sequence (the most
\* recent).
C11_TieGoesToFirst ==
    res.kind = "row" =>
        \E k \in DOMAIN arg.rows :
            /\ arg.rows[k] = res.row
            /\ \A j \in DOMAIN arg.rows : ArgScore(j) <= ArgScore(k)
            /\ \A j \in 1..(k - 1) : ArgScore(j) < ArgScore(k)

\* two candidates tie on the greatest score and the earlier one is returned
C11_Witness ==
    /\ res.kind = "row"
    /\ \E j, k \in DOMAIN arg.rows :
        /\ j < k
        /\ arg.rows[j] = res.row
        /\ ArgScore(j) = ArgScore(k)

\* The weighting table of the reconciler.  supplied(f) says when the
\* criterion f counts; a rule is satisfied when the criterion counts, the
\* candidate has the field, and the comparison of the rule holds.
RuleEqual(supplied(_), search, row_data, f) ==
    supplied(f) /\ f \in DOMAIN row_data /\ PyEq(row_data[f], search[f])

RuleSubstring(supplied(_), search, row_data, f) ==
    /\ supplied(f) /\ f \in DOMAIN row_data
    /\ search[f].t = "str" /\ row_data[f].t = "str"
    /\ IsSubstring(Lower(search[f].s), Lower(row_data[f].s))

RuleEqualNoCase(supplied(_), search, row_data, f) ==
    /\ supplied(f) /\ f \in DOMAIN row_data
    /\ search[f].t = "str" /\ row_data[f].t = "str"
    /\ Lower(search[f].s) = Lower(row_data[f].s)

Weight(rule, w) == IF rule THEN w ELSE 0

TableSum(supplied(_), category, search, row_data) ==
    CASE category = "finance" ->
            Weight(RuleEqual(supplied, search, row_data, "amount"), 3)
            + Weight(RuleSubstring(supplied, search, row_data, "description"), 2)
            + Weight(RuleEqual(supplied, search, row_data, "subcategory"), 1)
            + Weight(RuleEqual(supplied, search, row_data, "date"), 1)
      [] category = "dating" ->
            Weight(RuleEqualNoCase(supplied, search, row_data, "person"), 5)
      [] OTHER -> 0

\* C12 as stated: the score of every candidate is the sum of the weights of
\* the table rules it satisfies, a criterion counting whenever the search
\* holds its field.
C12_ScoreIsTableSum ==
    res.kind \in {"none", "row"} =>
        \A k \in DOMAIN arg.rows :
            ArgScore(k) = TableSum(LAMBDA f : f \in DOMAIN arg.search,
                                   arg.category, arg.search, RowData(arg.rows[k]))

\* C12, amended: the same sum, a criterion counting only when the search
\* holds its field with a value that is not null, empty, zero or false; and
\* the call returns none exactly when that sum is 0 for every candidate.
C12_ScoreIsTableSumOfTruthy ==
    res.kind \in {"none", "row"} =>
        LET sum(k) == TableSum(LAMBDA f : f \in DOMAIN arg.search
                                          /\ Truthy(arg.search[f]),
                               arg.category, arg.search, RowData(arg.rows[k]))
        IN  /\ \A k \in DOMAIN arg.rows : ArgScore(k) = sum(k)
            /\ res.kind = "none" <=> \A k \in DOMAIN arg.rows : sum(k) = 0
            /\ res.kind = "row" =>
                \E k \in DOMAIN arg.rows : arg.rows[k] = res.row /\ sum(k) > 0

\* a dating search in lower case has matched a person stored in title case
C12_Witness ==
    /\ res.kind = "row"
    /\ arg.category = "dating"
    /\ arg.search["person"].s # RowData(res.row)["person"].s
    /\ \E k \in DOMAIN arg.rows : arg.rows[k] = res.row /\ ArgScore(k) = 5

\* arg is a response of one of the three kinds of failure: a status other
\* than 200, text that is not JSON, a JSON object that validation rejects
FailedResponse(resp, valid) ==
    \/ resp.kind \in {"status", "not_json"}
    \/ /\ resp.kind = "json"
       /\ ~resp.parsed.needs_clarification
       /\ ~valid.ok
       /\ valid.err # "TypeError"

\* C15 as stated: any two failures, of whatever kind, give the same
\* response.
C15_FailuresIdentical ==
    [][(res.kind = "parsed" /\ FailedResponse(arg, res.valid)
        /\ FailedResponse(arg', res'.valid))
       => res'.parsed = res.parsed]_vars

\* C15, amended: every failure gives a clarification response of the same
\* shape (category unknown, needs_clarification true, no action, no data),
\* and two failures of the same kind give the same question; the question
\* is the text of that kind of failure.
C15_FailuresSameShape ==
    [][FailedResponse(arg', res'.valid) =>
        /\ res'.parsed.needs_clarification
        /\ res'.parsed.category = "unknown"
        /\ res'.parsed.action = "absent"
        /\ ~res'.parsed.has_data
        /\ res'.parsed.clarification_question =
              CASE arg'.kind = "status" ->
                      "Sorry, I had trouble processing that. Could you try again?"
                [] arg'.kind = "not_json" ->
                      "I couldn't understand that. Could you rephrase?"
                [] OTHER ->
                      "I wasn't sure how to categorise that. Could you rephrase?"
        /\ (res.kind = "parsed" /\ FailedResponse(arg, res.valid)
            /\ arg.kind = arg'.kind) => res'.parsed = res.parsed]_vars

\* a validation failure has been answered
C15_Witness ==
    /\ res.kind = "parsed"
    /\ arg.kind = "json"
    /\ FailedResponse(arg, res.valid)
    /\ res.parsed.clarification_question =
          "I wasn't sure how to categorise that. Could you rephrase?"

\* the call just made was validate_parsed on an add command of category c
ValidatedAdd(c) ==
    /\ res.kind = "parsed"
    /\ arg.kind = "json"
    /\ arg.parsed.category = c
    /\ ParsedAction(arg.parsed) = "add"

\* C17: validate_parsed rejects an add command whenever one of the enum
\* fields of its category is present in data with a value outside the
\* allowed set, whatever that value is.
C17_InvalidEnumRejected ==
    \A c \in {"dating", "todos", "habits"} :
        (/\ ValidatedAdd(c)
         /\ \E f \in DOMAIN VALID_ENUMS(c) :
                /\ f \in DOMAIN arg.parsed.data
                /\ \A a \in VALID_ENUMS(c)[f] : arg.parsed.data[f] # a)
        => ~res.valid.ok

\* C19: validate_parsed rejects a finance add command whose amount is
\* absent, not a number, zero or negative.
C19_BadAmountRejected ==
    (/\ ValidatedAdd("finance")
     /\ \/ "amount" \notin DOMAIN arg.parsed.data
        \/ arg.parsed.data["amount"].t # "num"
        \/ arg.parsed.data["amount"].n <= 0)
    => ~res.valid.ok

\* C20: validate_parsed rejects a sleep add command whose score is not a
\* number, below 0 or above 10, and accepts the scores 0 and 10.
C20_BadScoreRejected ==
    ValidatedAdd("sleep") =>
        LET data == arg.parsed.data
        IN  /\ ("score" \in DOMAIN data
                /\ (\/ data["score"].t # "num"
                    \/ data["score"].n < 0
                    \/ data["score"].n > 10)) => ~res.valid.ok
            /\ ("score" \in DOMAIN data /\ data["score"] \in {Num(0), Num(10)})
                => res.valid.ok

\* the rows a step has removed from the store and the rows it has added
Gone == DOMAIN store \ DOMAIN store'
New == DOMAIN store' \ DOMAIN store
Kept == \A i \in DOMAIN store \cap DOMAIN store' : store'[i] = store[i]

DefaultKeys(category) ==
    CASE category = "todos" -> {"status", "tags"}
      [] category \in Categories -> {"date"}
      [] OTHER -> {}

DefaultValue(k, today) ==
    CASE k = "status" -> S_pending
      [] k = "tags" -> EmptyList
      [] OTHER -> today

\* C14: an add cycle for a command that passes validation inserts at most
\* one row and changes no other; the row holds the command's data and the
\* defaults of the category (for finance: amount, description, subcategory
\* and date); the answer is Logged, with the row stored, or
\* PersistenceFailed.
C14_AddInsertsOnce ==
    [][\A u \in Users, resp \in OracleResponses :
        (/\ resp.kind = "json"
         /\ ~resp.parsed.needs_clarification
         /\ resp.parsed.has_data
         /\ ParsedAction(resp.parsed) = "add"
         /\ ValidateParsed(resp.parsed).ok
         /\ HandleMessage(u, resp, TRUE))
        => /\ Gone = {} /\ Kept
           /\ Cardinality(New) <= 1
           /\ out'.kind \in {"Logged", "PersistenceFailed"}
           /\ out'.kind = "Logged" => New = {out'.id}
           /\ \A i \in New :
                LET given == resp.parsed.data
                    d == RowData(store'[i])
                    filled == DefaultKeys(resp.parsed.category) \ DOMAIN given
                IN  /\ store'[i].category = resp.parsed.category
                    /\ store'[i].user_id = IntToStr(u)
                    /\ DOMAIN d = DOMAIN given \cup filled
                    /\ \A k \in DOMAIN given : d[k] = given[k]
                    /\ \A k \in filled : d[k] = DefaultValue(k, DateStr(now))
                    /\ resp.parsed.category = "finance" =>
                         {"amount", "description", "subcategory", "date"}
                             \subseteq DOMAIN d]_vars

\* C16: a command with needs_clarification = true comes back from
\* parse_with_claude as it is, whatever its category, action and data; the
\* answer is AskClarification with the oracle's question and the store is
\* not touched.
C16_ClarificationBypasses ==
    [][\A u \in Users, resp \in OracleResponses :
        (/\ resp.kind = "json"
         /\ resp.parsed.needs_clarification
         /\ HandleMessage(u, resp, TRUE))
        => /\ ParseWithClaude(resp, DateStr(now)) = resp.parsed
           /\ out' = Out("AskClarification", 0, resp.parsed.clarification_question)
           /\ store' = store
           /\ nextId' = nextId]_vars

\* the oracle's question on a remove has been passed on while a finance
\* entry that the search would match is stored
C16_Witness ==
    /\ out = Out("AskClarification", 0, "Which one?")
    /\ \E i \in DOMAIN store : store[i].category = "finance"

\* C18: a todos add whose data has task and priority but no status is
\* accepted and stored with status "pending" and tags [].
TodoNoStatus ==
    [kind |-> "json",
     parsed |-> Cmd("add", "todos", ("task" :> S_a) @@ ("priority" :> S_high))]

C18_TodoStatusDefaulted ==
    [][\A u \in Users :
        HandleMessage(u, TodoNoStatus, TRUE) =>
            /\ out'.kind \in {"Logged", "PersistenceFailed"}
            /\ out'.kind = "Logged" =>
                /\ out'.id \in DOMAIN store'
                /\ RowData(store'[out'.id])["status"] = S_pending
                /\ RowData(store'[out'.id])["tags"] = EmptyList]_vars

\* C21: for a net_worth add command, validate_parsed rejects every command
\* in which neither savings nor trading is present as a number, and accepts
\* a command in which exactly one of them is a number.
IsNumeric(data, k) == k \in DOMAIN data /\ data[k].t = "num"

C21_NetWorthNeedsANumber ==
    ValidatedAdd("net_worth") =>
        LET data == arg.parsed.data
        IN  /\ (~IsNumeric(data, "savings") /\ ~IsNumeric(data, "trading"))
                    => ~res.valid.ok
            /\ (IsNumeric(data, "savings") # IsNumeric(data, "trading"))
                    => res.valid.ok

\* C22: validate_parsed does not accept a command whose category is not one
\* of the six categories ("unknown", a missing category, a value that is
\* not a string), whether it is an add or a remove, and the cycle of such a
\* command asks the user to rephrase and leaves the store as it was.
C22_UnknownCategoryRejected ==
    [][\A u \in Users, resp \in OracleResponses :
        (/\ resp.kind = "json"
         /\ resp.parsed.category \notin Categories)
        => /\ ~ValidateParsed(resp.parsed).ok
           /\ HandleMessage(u, resp, TRUE) =>
                /\ out'.kind = "AskClarification"
                /\ store' = store
                /\ nextId' = nextId]_vars

\* a remove of category "unknown" that names an amount was turned down
\* while an entry with that amount is stored
C22_Witness ==
    /\ out = Out("AskClarification", 0, Q_invalid)
    /\ arg.kind = "json"
    /\ arg.parsed.category = "unknown"
    /\ arg.parsed.action = "remove"
    /\ ~arg.parsed.needs_clarification
    /\ \E i \in DOMAIN store :
            /\ store[i].user_id = IntToStr(arg.user)
            /\ PyEq(Get(RowData(store[i]), "amount"), arg.parsed.data["amount"])

\* the fields the claim names for an action and a category
ClaimRequired(action, category) ==
    IF action = "remove"
    THEN (IF category = "dating" THEN {"person"} ELSE {})
    ELSE CASE category = "finance" -> {"amount", "description", "subcategory"}
           [] category = "dating" -> {"person", "status"}
           [] category = "todos" -> {"task", "priority", "status"}
           [] category = "habits" -> {"habit"}
           [] category = "sleep" -> {"score"}
           [] OTHER -> {}

\* C23: for a command of a known category, validate_parsed rejects for
\* missing fields exactly when a field required for its action and category
\* is not a key of data, whatever the other checks would say: add requires
\* finance {amount, description, subcategory}, dating {person, status},
\* todos {task, priority, status}, habits {habit}, sleep {score}; remove
\* requires only dating {person}.
C23_MissingFieldsRejected ==
    (/\ res.kind = "parsed"
     /\ arg.kind = "json"
     /\ arg.parsed.category \in Categories)
    => LET missing == ClaimRequired(ParsedAction(arg.parsed), arg.parsed.category)
                        \ DOMAIN arg.parsed.data
       IN  /\ (missing # {}) <=> (res.valid.err = "missing fields")
           /\ missing # {} => ~res.valid.ok

\* a dating add without person was rejected for the missing field although
\* its status is not an allowed one
C23_Witness ==
    /\ ValidatedAdd("dating")
    /\ arg.parsed.data = ("status" :> S_x)
    /\ res.valid = [ok |-> FALSE, err |-> "missing fields"]

\* C24: validate_parsed makes no enum or numeric check on a remove: a remove
\* of a known category whose required fields are keys of data is accepted,
\* whatever the values of status, priority, habit, amount or score are.
C24_RemoveSkipsValueChecks ==
    (/\ res.kind = "parsed"
     /\ arg.kind = "json"
     /\ arg.parsed.action = "remove"
     /\ arg.parsed.category \in Categories
     /\ ClaimRequired("remove", arg.parsed.category) \subseteq DOMAIN arg.parsed.data)
    => res.valid = [ok |-> TRUE, err |-> ""]

\* a finance remove with amount -1 was accepted
C24_Witness ==
    /\ res.kind = "parsed"
    /\ arg.kind = "json"
    /\ arg.parsed.action = "remove"
    /\ arg.parsed.category = "finance"
    /\ ~arg.parsed.needs_clarification
    /\ arg.parsed.data = FinanceBase @@ ("amount" :> Num(-1))
    /\ res.valid.ok
    /\ res.parsed.data["amount"] = Num(-1)

\* C25: with the date fixed, _apply_defaults applied to its own result
\* gives that result again, for every category and every data map.
C25_DefaultsIdempotent ==
    (res.kind = "defaulted" /\ res.count = 2) => res.parsed = res.first

\* the second call was made on a todo to which the first call gave its
\* status and its tags
C25_Witness ==
    /\ res.kind = "defaulted"
    /\ res.count = 2
    /\ arg.parsed.category = "todos"
    /\ arg.parsed.has_data
    /\ DOMAIN arg.parsed.data \cap {"status", "tags"} = {}
    /\ res.first.data["status"] = S_pending
    /\ res.first.data["tags"] = EmptyList

\* C29: _apply_defaults changes nothing but absent keys: every key of data
\* keeps its value (a date, status or tags that is there included), no key
\* is removed, and action, category, confidence and the clarification
\* fields of the command are as they were.
C29_DefaultsOnlyFillAbsent ==
    res.kind = "defaulted" =>
        LET before == res.first
            after == res.parsed
        IN  /\ DOMAIN before.data \subseteq DOMAIN after.data
            /\ \A k \in DOMAIN before.data : after.data[k] = before.data[k]
            /\ after.action = before.action
            /\ after.category = before.category
            /\ after.confidence = before.confidence
            /\ after.needs_clarification = before.needs_clarification
            /\ after.clarification_question = before.clarification_question
            /\ after.has_data = before.has_data

\* a finance command dated tomorrow went through _apply_defaults and has
\* kept its date
C29_Witness ==
    /\ res.kind = "defaulted"
    /\ res.count = 1
    /\ arg.parsed.category = "finance"
    /\ arg.parsed.has_data
    /\ arg.today = DateStr(0)
    /\ arg.parsed.data = ("date" :> DateStr(1))
    /\ res.parsed.data = ("date" :> DateStr(1))

\* C26: every todos entry that an add cycle has stored has no reminder_time
\* or one that is a timestamp with offset: a reminder_time without offset
\* or one that does not parse is not stored.
C26_ReminderTimeOffsetAware ==
    \A i \in DOMAIN store :
        store[i].category = "todos" =>
            LET data == RowData(store[i])
            IN  "reminder_time" \in DOMAIN data =>
                    /\ FromIsoformat(data["reminder_time"]).ok
                    /\ FromIsoformat(data["reminder_time"]).aware

\* C27: a remove cycle of user u for category c deletes only an entry whose
\* user_id is u and whose category is c and that is, when the cycle starts,
\* among the 50 most recent entries of u in c; no entry of another user or
\* of another category is deleted by it.  (Every step is a remove cycle; the
\* sender and the command of the step are in arg'.)
C27_RemoveStaysWithinUserAndCategory ==
    [][\A i \in Gone :
            /\ arg'.parsed.action = "remove"
            /\ store[i].user_id = IntToStr(arg'.user)
            /\ store[i].category = arg'.parsed.category
            /\ Cardinality({j \in DOMAIN store :
                                /\ store[j].user_id = IntToStr(arg'.user)
                                /\ store[j].category = arg'.parsed.category
                                /\ store[j].created_at > store[i].created_at})
                    < 50]_vars

\* user 1 has removed the finance entry with amount 5, the oldest one,
\* while the more recent finance entry of user 2 with the same amount and
\* user 1's dating entry with that amount are still stored
C27_Witness ==
    /\ out = Out("Removed", 1, "")
    /\ arg.user = 1
    /\ arg.parsed.category = "finance"
    /\ arg.parsed.data = ("amount" :> Num(5))
    /\ 1 \notin DOMAIN store
    /\ \E i, j \in DOMAIN store :
            /\ store[i].user_id = IntToStr(2)
            /\ store[i].category = "finance"
            /\ RowData(store[i])["amount"] = Num(5)
            /\ store[j].user_id = IntToStr(1)
            /\ store[j].category = "dating"
            /\ RowData(store[j])["amount"] = Num(5)

\* C28: a remove cycle answers NothingMatched only when none of the
\* candidates scores above zero; a store query that fails, or a DELETE that
\* fails for the matched entry, is not answered with NothingMatched.
C28_NothingMatchedOnlyOnMiss ==
    [][\A u \in Users, resp \in OracleResponses :
        LET p == ParseWithClaude(resp, DateStr(now))
        IN  (/\ HandleMessage(u, resp, TRUE)
             /\ out'.kind = "NothingMatched")
            => FindBestMatch(p.category, p.data,
                             Candidates(u, p.category)).kind # "row"]_vars

\* the oracle's answer resp is not a command to act on: the extraction has
\* failed (a status other than 200, text that is not JSON, an exception) or
\* validate_parsed does not accept the object
Refused(resp) ==
    \/ resp.kind \in {"status", "not_json", "raise"}
    \/ /\ resp.kind = "json"
       /\ ~resp.parsed.needs_clarification
       /\ ~ValidateParsed(resp.parsed).ok

\* C30: when validation rejects the command or the extraction fails, the
\* cycle issues no insert and no delete: the store is after the message as
\* it was before, and the user is asked to rephrase.
C30_RefusedLeavesStore ==
    [][\A u \in Users, resp \in OracleResponses :
        (Refused(resp) /\ HandleMessage(u, resp, TRUE))
        => /\ store' = store
           /\ nextId' = nextId
           /\ out'.kind = "AskClarification"]_vars

\* a command of a known category was rejected by validation while the
\* sender has entries stored
C30_Witness ==
    /\ out = Out("AskClarification", 0, Q_invalid)
    /\ arg.kind = "json"
    /\ arg.parsed.category \in Categories
    /\ Refused([kind |-> arg.kind, parsed |-> arg.parsed])
    /\ \E i \in DOMAIN store : store[i].user_id = IntToStr(arg.user)

\* the categories _find_best_match has no scoring rule for
Unscored == {"todos", "habits", "sleep", "net_worth"}

\* C31: a remove cycle for todos, habits, sleep or net_worth never deletes
\* an entry: every candidate scores 0 whatever the criteria are, the answer
\* is always NothingMatched and the store is as it was.
C31_UnscoredRemoveFindsNothing ==
    [][\A u \in Users, resp \in OracleResponses :
        (/\ resp.kind = "json"
         /\ ~resp.parsed.needs_clarification
         /\ resp.parsed.action = "remove"
         /\ resp.parsed.category \in Unscored
         /\ HandleMessage(u, resp, TRUE))
        => /\ store' = store
           /\ out'.kind = "NothingMatched"
           /\ \A k \in DOMAIN Candidates(u, resp.parsed.category) :
                 Score(resp.parsed.category,
                       ParseWithClaude(resp, DateStr(now)).data,
                       RowData(Candidates(u, resp.parsed.category)[k])) = 0]_vars

\* the answers a message cycle can end with
Outcomes ==
    {"AskClarification", "Logged", "PersistenceFailed", "Removed", "NothingMatched"}

\* C32: every message cycle ends with one of the answers AskClarification,
\* Logged, PersistenceFailed, Removed, NothingMatched, whatever the oracle
\* returned: a remove without data, an object without action or without
\* confidence included.
C32_EveryCycleAnswers ==
    [][\A u \in Users, resp \in OracleResponses :
        HandleMessage(u, resp, TRUE) => out'.kind \in Outcomes]_vars

\* a step of the reminder job
SweepStep == Fetch \/ Row \/ Patch \/ SweepDone

\* C33: a step of a sweep inserts no row and deletes none; a row it changes
\* is a todos row that this sweep fetched and delivered successfully, only
\* the row's data changes, and the new data is the data the sweep fetched
\* with reminded set to true: every other key has the value that was read.
C33_SweepOnlyMarksDelivered ==
    [][SweepStep =>
        /\ Gone = {} /\ New = {}
        /\ nextId' = nextId
        /\ \A i \in DOMAIN store :
              store'[i] # store[i] =>
                /\ store[i].category = "todos"
                /\ i \in sw.okd /\ i \in DOMAIN sw.rows
                /\ sent[i] >= 1
                /\ store'[i] = [store[i] EXCEPT !.data = store'[i].data]
                /\ RowData(store'[i]) =
                      SetItem(RowData(sw.rows[i]), "reminded", Bool(TRUE))
                /\ \A k \in DOMAIN RowData(store[i]) \ {"reminded"} :
                      /\ k \in DOMAIN RowData(store'[i])
                      /\ RowData(store'[i])[k] = RowData(store[i])[k]]_vars

\* the sweep has marked a todo it delivered, the todo keeps its task, and a
\* row of another category is stored beside it
C33_Witness ==
    \E i, j \in DOMAIN store :
        /\ i \in sw.patched /\ i \in sw.okd
        /\ Reminded(store[i]) /\ "task" \in DOMAIN RowData(store[i])
        /\ store[j].category # "todos"

=============================================================================
